---- MODULE Spec2Model ----
(***************************************************************************)
(* Presence registry, message routing and chat history of the chat server  *)
(* (src/server.js, lines 1-446, with the status_change handler of          *)
(* src/unnamed/part_003).                                                   *)
(*                                                                         *)
(* One action per socket.io / HTTP handler.  The send_message handler is   *)
(* async: it runs up to `await newMessage.save()`; when the store settles  *)
(* the write the rest of the handler runs.  Other handlers interleave      *)
(* between the two steps, and writes in flight settle in any order.        *)
(*                                                                         *)
(* Payload fields that no handler branches on and that are never compared  *)
(* (name, email, lastSeen, senderName, roomId) are left out of the records. *)
(***************************************************************************)
EXTENDS Naturals, Sequences, FiniteSets, TLC

\* ------------------------------------------------------------------ bounds
\* most sends that are in flight or persisted at one time
MaxMsgs == 2
\* largest reading of Date.now()
MaxClock == 2
\* most documents in the collection when the process starts on a stored one
MaxLog == 3

\* ------------------------------------------------------------- input sets
\* socket ids in the order the transport hands them out; each is used once
ConnIds == <<"c1", "c2", "c3">>
Conns == {ConnIds[i] : i \in DOMAIN ConnIds}
Users == {"A", "B"}
\* a field the client left out (JavaScript undefined)
Missing == "undefined"
\* io.emit(...) addresses every connected socket
ALL == "all"
\* the caller of an HTTP route
HTTP == "http"
\* the values a client may put in newStatus
Statuses == {"online", "away", "busy", "offline"}
Times == 1..MaxClock

\* a send_message payload; timestamp 0 is falsy, like a missing timestamp
Data(s, r, c, id, ts) ==
    [sender |-> s, receiverId |-> r, content |-> c, messageId |-> id,
     timestamp |-> ts]

\* payloads that pass validation, with and without a messageId
ValidData ==
    { Data("A", "B", "hi", "m1", 0), Data("B", "A", "yo", "m1", 0),
      Data("A", "B", "hi", Missing, 0) }

\* payloads with one required field missing or empty
InvalidData ==
    { Data(Missing, "B", "hi", "m1", 0), Data("", "B", "hi", "m1", 0),
      Data("A", Missing, "hi", "m1", 0), Data("A", "", "hi", "m1", 0),
      Data("A", "B", "", "m1", 0), Data("A", "B", Missing, "m1", 0) }

SendData == ValidData \cup InvalidData

VARIABLES
    sockets,         \* socket id -> "new" | "open" | "closed"
    socketUserId,    \* socket id -> socket.userId (Missing until signin)
    connectedUsers,  \* the Map of server.js:208, as its entries in insertion order
    log,             \* the messages collection, in insertion order
    pending,         \* send_message handlers suspended at await newMessage.save()
    last,            \* the inbound event (or handler step) handled last
    out              \* what that step emitted, in order

vars == <<sockets, socketUserId, connectedUsers, log, pending, last, out>>

\* ------------------------------------------------------------ the JS Map
MapHas(m, k) == \E i \in DOMAIN m : m[i].userId = k

MapGet(m, k) == m[CHOOSE i \in DOMAIN m : m[i].userId = k]

\* a bug: set() appends even when the key is present
MapSetAppend(m, k, v) == Append(m, v)

\* Map.prototype.set: an existing key keeps its position, a new key goes last
MapSet(m, k, v) ==
    IF MapHas(m, k)
    THEN [i \in DOMAIN m |-> IF m[i].userId = k THEN v ELSE m[i]]
    ELSE Append(m, v)

MapDelete(m, k) == SelectSeq(m, LAMBDA e : e.userId # k)

\* Array.from(connectedUsers.values()).map(...): status is the literal 'online'
UsersList(m) == [i \in DOMAIN m |-> [userId |-> m[i].userId, status |-> "online"]]

\* ------------------------------------------------------------- emissions
Emit(ev, to, p) == [ev |-> ev, to |-> to, p |-> p]

BroadcastUsersList(m) ==
    Emit("users_list_updated", ALL, [onlineUsers |-> UsersList(m)])

Event(kind, c, arg) == [kind |-> kind, conn |-> c, arg |-> arg]

\* ---------------------------------------------------------------- start
Init ==
    /\ sockets = [c \in Conns |-> "new"]
    /\ socketUserId = [c \in Conns |-> Missing]
    /\ connectedUsers = <<>>
    /\ log = <<>>
    /\ pending = <<>>
    /\ last = Event("start", ALL, Missing)
    /\ out = <<>>

\* io.on('connection'): a transport connection is established
Connect(c) ==
    /\ sockets[c] = "new"
    /\ \A i, j \in DOMAIN ConnIds :
          (i < j /\ ConnIds[j] = c) => sockets[ConnIds[i]] # "new"
    /\ sockets' = [sockets EXCEPT ![c] = "open"]
    /\ last' = Event("connection", c, Missing)
    /\ out' = <<>>
    /\ UNCHANGED <<socketUserId, connectedUsers, log, pending>>

\* a bug: the users list is broadcast before the user is registered
SigninBroadcastFirst(c, userId) ==
    /\ sockets[c] = "open"
    /\ socketUserId' = [socketUserId EXCEPT ![c] = userId]
    /\ connectedUsers' = MapSet(connectedUsers, userId,
            [userId |-> userId, socketId |-> c, status |-> "online"])
    /\ last' = Event("signin", c, userId)
    /\ out' = << Emit("signin_success", c, [userId |-> userId]),
                 BroadcastUsersList(connectedUsers) >>
    /\ UNCHANGED <<sockets, log, pending>>

\* a bug: signin pushes the stored messages of the user to the connection
SigninReplay(c, userId) ==
    /\ sockets[c] = "open"
    /\ socketUserId' = [socketUserId EXCEPT ![c] = userId]
    /\ connectedUsers' = MapSet(connectedUsers, userId,
            [userId |-> userId, socketId |-> c, status |-> "online"])
    /\ last' = Event("signin", c, userId)
    /\ out' = << Emit("signin_success", c, [userId |-> userId]),
                 BroadcastUsersList(connectedUsers') >>
               \o [i \in 1..Len(SelectSeq(log, LAMBDA d : d.receiverId = userId))
                     |-> Emit("receive_message", c,
                              SelectSeq(log, LAMBDA d : d.receiverId = userId)[i])]
    /\ UNCHANGED <<sockets, log, pending>>

\* socket.on('signin')
Signin(c, userId) ==
    /\ sockets[c] = "open"
    /\ socketUserId' = [socketUserId EXCEPT ![c] = userId]
    /\ connectedUsers' = MapSet(connectedUsers, userId,
            [userId |-> userId, socketId |-> c, status |-> "online"])
    /\ last' = Event("signin", c, userId)
    /\ out' = << Emit("signin_success", c, [userId |-> userId]),
                 BroadcastUsersList(connectedUsers') >>
    /\ UNCHANGED <<sockets, log, pending>>

\* a bug: the new status is written to every entry of the registry
StatusChangeAll(c, newStatus) ==
    /\ sockets[c] = "open"
    /\ connectedUsers' =
          IF socketUserId[c] # Missing /\ MapHas(connectedUsers, socketUserId[c])
          THEN [i \in DOMAIN connectedUsers |->
                  [connectedUsers[i] EXCEPT !.status = newStatus]]
          ELSE connectedUsers
    /\ last' = Event("status_change", c, newStatus)
    /\ out' = << BroadcastUsersList(connectedUsers') >>
    /\ UNCHANGED <<sockets, socketUserId, log, pending>>

\* socket.on('status_change')
StatusChange(c, newStatus) ==
    /\ sockets[c] = "open"
    /\ connectedUsers' =
          IF socketUserId[c] # Missing /\ MapHas(connectedUsers, socketUserId[c])
          THEN MapSet(connectedUsers, socketUserId[c],
                 [MapGet(connectedUsers, socketUserId[c]) EXCEPT !.status = newStatus])
          ELSE connectedUsers
    /\ last' = Event("status_change", c, newStatus)
    /\ out' = << BroadcastUsersList(connectedUsers') >>
    /\ UNCHANGED <<sockets, socketUserId, log, pending>>

\* a bug: the users list is broadcast before the entry is removed
DisconnectBroadcastFirst(c) ==
    /\ sockets[c] = "open"
    /\ sockets' = [sockets EXCEPT ![c] = "closed"]
    /\ last' = Event("disconnect", c, socketUserId[c])
    /\ IF socketUserId[c] # Missing
       THEN /\ connectedUsers' = MapDelete(connectedUsers, socketUserId[c])
            /\ out' = << BroadcastUsersList(connectedUsers),
                         Emit("user_offline", ALL, [userId |-> socketUserId[c]]) >>
       ELSE /\ connectedUsers' = connectedUsers
            /\ out' = <<>>
    /\ UNCHANGED <<socketUserId, log, pending>>

\* socket.on('get_users_list'): the list goes to the caller with socket.emit
GetUsersList(c) ==
    /\ sockets[c] = "open"
    /\ last' = Event("get_users_list", c, Missing)
    /\ out' = << Emit("users_list", c,
                      [onlineUsers |-> UsersList(connectedUsers)]) >>
    /\ UNCHANGED <<sockets, socketUserId, connectedUsers, log, pending>>

\* socket.on('disconnect'): the transport closed
Disconnect(c) ==
    /\ sockets[c] = "open"
    /\ sockets' = [sockets EXCEPT ![c] = "closed"]
    /\ last' = Event("disconnect", c, socketUserId[c])
    /\ IF socketUserId[c] # Missing
       THEN /\ connectedUsers' = MapDelete(connectedUsers, socketUserId[c])
            /\ out' = << BroadcastUsersList(connectedUsers'),
                         Emit("user_offline", ALL, [userId |-> socketUserId[c]]) >>
       ELSE /\ connectedUsers' = connectedUsers
            /\ out' = <<>>
    /\ UNCHANGED <<socketUserId, log, pending>>


\* ------------------------------------------------------- the Message model
\* `x || fallback`: undefined and the empty string are falsy
Falsy(x) == x = Missing \/ x = ""

\* `${sender}_${Date.now()}`
GenId(sender, t) == sender \o "_" \o ToString(t)

\* a bug: the document is created as already read
NewMessageRead(data, t) ==
    [sender |-> data.sender,
     receiverId |-> data.receiverId,
     content |-> data.content,
     messageId |-> IF Falsy(data.messageId) THEN GenId(data.sender, t)
                   ELSE data.messageId,
     timestamp |-> IF data.timestamp = 0 THEN t ELSE data.timestamp,
     read |-> TRUE,
     createdAt |-> t]

\* new Message({...}) of the send_message handler, built and saved at time t
\* (createdAt comes from the schema option timestamps: true)
NewMessage(data, t) ==
    [sender |-> data.sender,
     receiverId |-> data.receiverId,
     content |-> data.content,
     messageId |-> IF Falsy(data.messageId) THEN GenId(data.sender, t)
                   ELSE data.messageId,
     timestamp |-> IF data.timestamp = 0 THEN t ELSE data.timestamp,
     read |-> FALSE,
     createdAt |-> t]

\* messageSchema: `required: true` on a String rejects undefined and ''
Required(x) == ~Falsy(x)

ValidMessage(doc) ==
    /\ Required(doc.sender)
    /\ Required(doc.receiverId)
    /\ Required(doc.content)
    /\ Required(doc.messageId)

\* a bug: the collection has no unique index on messageId
DuplicateKeyNoIndex(l, doc) == FALSE

\* the unique index on messageId
DuplicateKey(l, doc) == \E i \in DOMAIN l : l[i].messageId = doc.messageId

\* how newMessage.save() can settle on the collection l: validation first,
\* then the insert, which the unique index or the store itself may reject
SaveResults(l, doc) ==
    IF ~ValidMessage(doc) THEN {"ValidationError"}
    ELSE IF DuplicateKey(l, doc) THEN {"DuplicateKey", "WriteError"}
    ELSE {"saved", "WriteError"}

\* the readings Date.now() can give: not before any document was created
ClockReadings(l, p) ==
    {t \in Times : /\ \A i \in DOMAIN l : l[i].createdAt <= t
                   /\ \A i \in DOMAIN p : p[i].doc.createdAt <= t}

RemoveAt(s, i) == SubSeq(s, 1, i - 1) \o SubSeq(s, i + 1, Len(s))

\* socket.on('send_message'), up to `await newMessage.save()`.
\* content.substring(...) is evaluated before the try block: with content
\* undefined it throws, the async handler rejects and nothing else runs.
SendMessage(c, data) ==
    /\ sockets[c] = "open"
    /\ Len(log) + Len(pending) < MaxMsgs
    /\ last' = Event("send_message", c, data)
    /\ out' = <<>>
    /\ IF data.content = Missing
       THEN pending' = pending
       ELSE \E t \in ClockReadings(log, pending) :
              pending' = Append(pending,
                  [conn |-> c, data |-> data, doc |-> NewMessage(data, t)])
    /\ UNCHANGED <<sockets, socketUserId, connectedUsers, log>>

\* a send_message that arrives while its receiver has a registry entry
SendToPresent(c, data) ==
    /\ MapHas(connectedUsers, data.receiverId)
    /\ SendMessage(c, data)

\* the collections the store can end with when the process dies with the
\* writes p in flight: each write is lost or, if the store accepts it, done
RECURSIVE InFlightOutcomes(_, _)
InFlightOutcomes(l, p) ==
    IF p = <<>> THEN {l}
    ELSE UNION {UNION {InFlightOutcomes(l2, RemoveAt(p, i)) :
                         l2 \in {l} \cup
                                (IF "saved" \in SaveResults(l, p[i].doc)
                                 THEN {Append(l, p[i].doc)} ELSE {})} :
                  i \in DOMAIN p}

\* socket.on('send_message') with content undefined, on a runtime that ends
\* the process on an unhandled rejection (the default since Node.js 15; there
\* is no process.on('unhandledRejection')): content.substring throws outside
\* the try block, the promise of the async handler rejects, and the process
\* exits.  Every connection drops without its disconnect handler, the
\* registry and the suspended handlers are gone; a process started afterwards
\* has an empty registry and the stored collection.
SendMessageExits(c, data) ==
    /\ sockets[c] = "open"
    /\ Len(log) + Len(pending) < MaxMsgs
    /\ data.content = Missing
    /\ sockets' = [d \in Conns |-> IF sockets[d] = "open" THEN "closed"
                                   ELSE sockets[d]]
    /\ connectedUsers' = <<>>
    /\ pending' = <<>>
    /\ log' \in InFlightOutcomes(log, pending)
    /\ last' = Event("send_message", c, data)
    /\ out' = <<>>
    /\ UNCHANGED socketUserId

\* the payload of message_error: the same text for every failure
MessageError(messageId) ==
    [error |-> "Failed to send message", messageId |-> messageId]

\* the payload of receive_message, built at time t
ReceivePayload(data, t) ==
    [sender |-> data.sender,
     receiverId |-> data.receiverId,
     content |-> data.content,
     messageId |-> data.messageId,
     timestamp |-> IF data.timestamp = 0 THEN t ELSE data.timestamp]

\* a bug: the receiver lookup and the emits are not skipped when save() rejects
AfterSaveUnchecked(p, res, m, t) ==
    << IF MapHas(m, p.data.receiverId)
       THEN Emit("receive_message", MapGet(m, p.data.receiverId).socketId,
                 ReceivePayload(p.data, t))
       ELSE Emit("receiver_offline", p.conn, [receiverId |-> p.data.receiverId]),
       Emit("message_sent", p.conn, [messageId |-> p.data.messageId]) >>

\* a bug: the confirmation is emitted after the try/catch, on either path
AfterSaveAckAfterCatch(p, res, m, t) ==
    IF res = "saved"
    THEN AfterSaveUnchecked(p, res, m, t)
    ELSE << Emit("message_error", p.conn, MessageError(p.data.messageId)),
            Emit("message_sent", p.conn, [messageId |-> p.data.messageId]) >>

\* a bug: message_sent is emitted in the delivered branch only
AfterSaveExclusiveAck(p, res, m, t) ==
    IF res # "saved"
    THEN << Emit("message_error", p.conn, MessageError(p.data.messageId)) >>
    ELSE IF MapHas(m, p.data.receiverId)
    THEN AfterSaveUnchecked(p, res, m, t)
    ELSE << Emit("receiver_offline", p.conn, [receiverId |-> p.data.receiverId]) >>

\* a bug: receive_message goes out with io.emit, as in the handler of
\* server.js:523-539, instead of io.to(receiverData.socketId).emit
AfterSaveBroadcast(p, res, m, t) ==
    IF res # "saved"
    THEN << Emit("message_error", p.conn, MessageError(p.data.messageId)) >>
    ELSE << IF MapHas(m, p.data.receiverId)
            THEN Emit("receive_message", ALL, ReceivePayload(p.data, t))
            ELSE Emit("receiver_offline", p.conn,
                      [receiverId |-> p.data.receiverId]),
            Emit("message_sent", p.conn, [messageId |-> p.data.messageId]) >>

\* a bug: a receiver that is no longer registered makes the send fail
AfterSaveFailOffline(p, res, m, t) ==
    IF res = "saved" /\ MapHas(m, p.data.receiverId)
    THEN << Emit("receive_message", MapGet(m, p.data.receiverId).socketId,
                 ReceivePayload(p.data, t)),
            Emit("message_sent", p.conn, [messageId |-> p.data.messageId]) >>
    ELSE << Emit("message_error", p.conn, MessageError(p.data.messageId)) >>

\* the handler's emissions after the await: p is the suspended handler, res
\* how its save settled, m the registry and t the time when it resumes
AfterSave(p, res, m, t) ==
    IF res = "saved"
    THEN << IF MapHas(m, p.data.receiverId)
            THEN Emit("receive_message", MapGet(m, p.data.receiverId).socketId,
                      ReceivePayload(p.data, t))
            ELSE Emit("receiver_offline", p.conn,
                      [receiverId |-> p.data.receiverId]),
            Emit("message_sent", p.conn, [messageId |-> p.data.messageId]) >>
    ELSE << Emit("message_error", p.conn, MessageError(p.data.messageId)) >>

\* a bug: a save whose messageId is in the collection overwrites that record
SaveSettlesUpsert(i) ==
    /\ i \in DOMAIN pending
    /\ ValidMessage(pending[i].doc)
    /\ log' = IF DuplicateKey(log, pending[i].doc)
              THEN [k \in DOMAIN log |->
                      IF log[k].messageId = pending[i].doc.messageId
                      THEN pending[i].doc ELSE log[k]]
              ELSE Append(log, pending[i].doc)
    /\ pending' = RemoveAt(pending, i)
    /\ last' = Event("send_done", pending[i].conn,
                     [data |-> pending[i].data, doc |-> pending[i].doc,
                      res |-> "saved"])
    /\ \E t \in ClockReadings(log', pending) :
         out' = AfterSave(pending[i], "saved", connectedUsers, t)
    /\ UNCHANGED <<sockets, socketUserId, connectedUsers>>

\* a bug: duplicates are looked up when the send arrives and not rejected by
\* the index when the write settles, so a record stored since is not seen
SaveSettlesCheckThenInsert(i) ==
    /\ i \in DOMAIN pending
    /\ \E res \in (IF ~ValidMessage(pending[i].doc) THEN {"ValidationError"}
                   ELSE IF \E k \in DOMAIN log :
                              /\ log[k].messageId = pending[i].doc.messageId
                              /\ log[k].createdAt <= pending[i].doc.createdAt
                        THEN {"DuplicateKey", "WriteError"}
                        ELSE {"saved", "WriteError"}) :
         /\ log' = IF res = "saved" THEN Append(log, pending[i].doc) ELSE log
         /\ pending' = RemoveAt(pending, i)
         /\ last' = Event("send_done", pending[i].conn,
                          [data |-> pending[i].data, doc |-> pending[i].doc,
                           res |-> res])
         /\ \E t \in ClockReadings(log', pending) :
              out' = AfterSave(pending[i], res, connectedUsers, t)
    /\ UNCHANGED <<sockets, socketUserId, connectedUsers>>

\* newMessage.save() settles and socket.on('send_message') runs from the
\* await to its end
SaveSettles(i) ==
    /\ i \in DOMAIN pending
    /\ \E res \in SaveResults(log, pending[i].doc) :
         /\ log' = IF res = "saved" THEN Append(log, pending[i].doc) ELSE log
         /\ pending' = RemoveAt(pending, i)
         /\ last' = Event("send_done", pending[i].conn,
                          [data |-> pending[i].data, doc |-> pending[i].doc,
                           res |-> res])
         /\ \E t \in ClockReadings(log', pending) :
              out' = AfterSave(pending[i], res, connectedUsers, t)
    /\ UNCHANGED <<sockets, socketUserId, connectedUsers>>

\* ------------------------------------------------------- typing signals
\* a bug: the signal is also acknowledged to the connection that sent it
TypingOutEcho(c, receiverId, isTyping, m) ==
    (IF MapHas(m, receiverId)
     THEN << Emit("user_typing", MapGet(m, receiverId).socketId,
                  [userId |-> socketUserId[c], isTyping |-> isTyping]) >>
     ELSE <<>>)
    \o << Emit("typing_ack", c, [receiverId |-> receiverId]) >>

\* const receiver = connectedUsers.get(receiverId);
\* if (receiver) io.to(receiver.socketId).emit('user_typing', {...})
TypingOut(c, receiverId, isTyping, m) ==
    IF MapHas(m, receiverId)
    THEN << Emit("user_typing", MapGet(m, receiverId).socketId,
                 [userId |-> socketUserId[c], isTyping |-> isTyping]) >>
    ELSE <<>>

\* socket.on('typing')
Typing(c, receiverId) ==
    /\ sockets[c] = "open"
    /\ last' = Event("typing", c, receiverId)
    /\ out' = TypingOut(c, receiverId, TRUE, connectedUsers)
    /\ UNCHANGED <<sockets, socketUserId, connectedUsers, log, pending>>

\* socket.on('stop_typing')
StopTyping(c, receiverId) ==
    /\ sockets[c] = "open"
    /\ last' = Event("stop_typing", c, receiverId)
    /\ out' = TypingOut(c, receiverId, FALSE, connectedUsers)
    /\ UNCHANGED <<sockets, socketUserId, connectedUsers, log, pending>>

\* ------------------------------------------------------------ the queries
\* a bug: the filter has one direction only, the messages sent to the caller
BetweenOneWay(msg, a, b) == msg.sender = b /\ msg.receiverId = a

\* { $or: [{sender: a, receiverId: b}, {sender: b, receiverId: a}] }
Between(msg, a, b) ==
    \/ msg.sender = a /\ msg.receiverId = b
    \/ msg.sender = b /\ msg.receiverId = a

\* parseInt(req.query.limit) || 50: a missing, unparsable or zero limit is 50
DefaultLimit == 50
HistoryLimit(q) == IF q = 0 THEN DefaultLimit ELSE q

Min(a, b) == IF a < b THEN a ELSE b

\* a bug: the page is returned as the store sorted it, newest first
KeepOrder(s) == s

\* Array.prototype.reverse
Reverse(s) == [i \in DOMAIN s |-> s[Len(s) + 1 - i]]

\* .sort({ timestamp: -1 }): every order of the matching documents with
\* non-increasing timestamps (the order among equal timestamps is the store's)
SortedByTimestampDesc(l, a, b) ==
    LET I == {i \in DOMAIN l : Between(l[i], a, b)}
        n == Cardinality(I)
    IN {[k \in 1..n |-> l[f[k]]] :
          f \in {g \in [1..n -> I] :
                   /\ \A j, k \in 1..n : j # k => g[j] # g[k]
                   /\ \A j, k \in 1..n :
                         j < k => l[g[j]].timestamp >= l[g[k]].timestamp}}

\* Message.find(...).sort(...).limit(limit).skip(skip), then messages.reverse()
History(l, a, b, limit, skip) ==
    {Reverse(SubSeq(s, skip + 1, Min(Len(s), skip + HistoryLimit(limit)))) :
       s \in SortedByTimestampDesc(l, a, b)}

\* GET /api/messages/history/:userId/:otherUserId
HistoryQuery(a, b, limit, skip) ==
    /\ \E r \in History(log, a, b, limit, skip) :
          out' = << Emit("history", HTTP, [messages |-> r]) >>
    /\ last' = Event("history", HTTP, <<a, b, limit, skip>>)
    /\ UNCHANGED <<sockets, socketUserId, connectedUsers, log, pending>>

\* .limit(limit) of request_chat_history: limit is 50 when the client leaves
\* it out, and the store reads limit(0) as "no limit"; n documents match
ChatHistoryLimit(q, n) == IF q = 0 THEN n ELSE q

\* Message.find(...).sort({ timestamp: -1 }).limit(limit), then reverse()
ChatHistory(l, a, b, limit) ==
    {Reverse(SubSeq(s, 1, Min(Len(s), ChatHistoryLimit(limit, Len(s))))) :
       s \in SortedByTimestampDesc(l, a, b)}

\* socket.on('request_chat_history') with {userId: a, otherUserId: b, limit}
RequestChatHistory(c, a, b, limit) ==
    /\ sockets[c] = "open"
    /\ \E r \in ChatHistory(log, a, b, limit) :
          out' = << Emit("chat_history", c,
                         [messages |-> r, count |-> Len(r), otherUserId |-> b]) >>
    /\ last' = Event("request_chat_history", c, <<a, b, limit>>)
    /\ UNCHANGED <<sockets, socketUserId, connectedUsers, log, pending>>

\* socket.on('request_chat_history') when Message.find rejects: the catch block
RequestChatHistoryFails(c, a, b, limit) ==
    /\ sockets[c] = "open"
    /\ out' = << Emit("chat_history_error", c, Missing) >>
    /\ last' = Event("chat_history_failed", c, <<a, b, limit>>)
    /\ UNCHANGED <<sockets, socketUserId, connectedUsers, log, pending>>

\* a bug: the group key is always the sender
CounterpartSender(msg, u) == msg.sender

\* $cond: [{ $eq: ['$sender', userId] }, '$receiverId', '$sender']
Counterpart(msg, u) == IF msg.sender = u THEN msg.receiverId ELSE msg.sender

\* $match sender or receiverId = u, then $sort: { timestamp: -1 }: every order
\* of the matching documents with non-increasing timestamps
MatchedSortedDesc(l, u) ==
    LET I == {i \in DOMAIN l : l[i].sender = u \/ l[i].receiverId = u}
        n == Cardinality(I)
    IN {[k \in 1..n |-> l[f[k]]] :
          f \in {g \in [1..n -> I] :
                   /\ \A j, k \in 1..n : j # k => g[j] # g[k]
                   /\ \A j, k \in 1..n :
                         j < k => l[g[j]].timestamp >= l[g[k]].timestamp}}

\* a bug: every message received from the counterpart counts, read or not
UnreadAny(msg, u) == IF msg.receiverId = u THEN 1 ELSE 0

\* $cond: [{ $and: [{$eq: ['$receiverId', userId]}, {$eq: ['$read', false]}] }, 1, 0]
Unread(msg, u) == IF msg.receiverId = u /\ msg.read = FALSE THEN 1 ELSE 0

\* $group over the sorted documents s: the first document of a key opens its
\* group and is its lastMessage ($first), every document adds to unreadCount
RECURSIVE Group(_, _, _)
Group(s, u, acc) ==
    IF s = <<>> THEN acc
    ELSE LET d == Head(s)
             id == Counterpart(d, u)
         IN Group(Tail(s), u,
               IF \E i \in DOMAIN acc : acc[i].id = id
               THEN [i \in DOMAIN acc |->
                       IF acc[i].id = id
                       THEN [acc[i] EXCEPT !.unreadCount = @ + Unread(d, u)]
                       ELSE acc[i]]
               ELSE Append(acc, [id |-> id, lastMessage |-> d,
                                 unreadCount |-> Unread(d, u)]))

\* Message.aggregate([$match, $sort, $group])
Conversations(l, u) == {Group(s, u, <<>>) : s \in MatchedSortedDesc(l, u)}

\* GET /api/messages/conversations/:userId
ConversationsQuery(u) ==
    /\ \E r \in Conversations(log, u) :
          out' = << Emit("conversations", HTTP, [conversations |-> r]) >>
    /\ last' = Event("conversations", HTTP, u)
    /\ UNCHANGED <<sockets, socketUserId, connectedUsers, log, pending>>

\* a bug: the filter has no sender, every message received by a is marked
UpdateReadAnySender(l, a, b) ==
    [i \in DOMAIN l |->
       IF l[i].receiverId = a /\ l[i].read = FALSE
       THEN [l[i] EXCEPT !.read = TRUE] ELSE l[i]]

\* a bug: the update flips the flag of every message from b to a
UpdateReadToggle(l, a, b) ==
    [i \in DOMAIN l |->
       IF l[i].sender = b /\ l[i].receiverId = a
       THEN [l[i] EXCEPT !.read = ~l[i].read] ELSE l[i]]

\* a bug: sender and receiver are swapped in the filter
UpdateReadSwapped(l, a, b) ==
    [i \in DOMAIN l |->
       IF l[i].sender = a /\ l[i].receiverId = b /\ l[i].read = FALSE
       THEN [l[i] EXCEPT !.read = TRUE] ELSE l[i]]

\* Message.updateMany({sender: b, receiverId: a, read: false}, {$set: {read: true}})
UpdateRead(l, a, b) ==
    [i \in DOMAIN l |->
       IF l[i].sender = b /\ l[i].receiverId = a /\ l[i].read = FALSE
       THEN [l[i] EXCEPT !.read = TRUE] ELSE l[i]]

\* POST /api/messages/mark-read with body {userId: a, otherUserId: b}
MarkRead(a, b) ==
    /\ log' = UpdateRead(log, a, b)
    /\ last' = Event("mark_read", HTTP, <<a, b>>)
    /\ out' = << Emit("mark_read_ok", HTTP, Missing) >>
    /\ UNCHANGED <<sockets, socketUserId, connectedUsers, pending>>

\* ------------------------------------------------------- specifications
\* presence only: every connection, user and status
NextPresence ==
    \/ \E c \in Conns : Connect(c)
    \/ \E c \in Conns, u \in Users : Signin(c, u)
    \/ \E c \in Conns, s \in Statuses : StatusChange(c, s)
    \/ \E c \in Conns : Disconnect(c)

SpecPresence == Init /\ [][NextPresence]_vars

\* presence and routing: two connections, every payload
RouteConns == {"c1", "c2"}

Next ==
    \/ \E c \in RouteConns : Connect(c)
    \/ \E c \in RouteConns, u \in Users : Signin(c, u)
    \/ \E c \in RouteConns : Disconnect(c)
    \/ \E c \in RouteConns, d \in SendData : SendMessage(c, d)
    \/ \E i \in 1..MaxMsgs : SaveSettles(i)

Spec == Init /\ [][Next]_vars

\* routing and the queries on the log: two connections, valid payloads, and
\* queries by either user about the other
QueryPairs == {<<"A", "B">>, <<"B", "A">>}

NextHistory ==
    \/ \E c \in RouteConns : Connect(c)
    \/ \E c \in RouteConns, u \in Users : Signin(c, u)
    \/ \E c \in RouteConns : Disconnect(c)
    \/ \E c \in RouteConns, d \in ValidData : SendMessage(c, d)
    \/ \E i \in 1..MaxMsgs : SaveSettles(i)
    \/ \E q \in QueryPairs : HistoryQuery(q[1], q[2], 0, 0)
    \/ \E q \in QueryPairs : MarkRead(q[1], q[2])

SpecHistory == Init /\ [][NextHistory]_vars

\* routing and typing signals: two connections, valid payloads, signals to
\* either user and without a receiverId
NextTyping ==
    \/ \E c \in RouteConns : Connect(c)
    \/ \E c \in RouteConns, u \in Users : Signin(c, u)
    \/ \E c \in RouteConns : Disconnect(c)
    \/ \E c \in RouteConns, d \in ValidData : SendMessage(c, d)
    \/ \E i \in 1..MaxMsgs : SaveSettles(i)
    \/ \E c \in RouteConns, r \in Users \cup {Missing} : Typing(c, r)
    \/ \E c \in RouteConns, r \in Users \cup {Missing} : StopTyping(c, r)

SpecTyping == Init /\ [][NextTyping]_vars

\* the users of the stored conversations
QueryUsers == {"A", "B", "C"}

\* what was sent to make a stored document: who to whom, and when
Sent == {x \in QueryUsers \X QueryUsers \X Times : x[1] # x[2]}

\* the collections the process can find in the store when it starts: up to
\* MaxLog documents made by send_message, unread, in the order of their writes
StoredLogs ==
    UNION {{[i \in 1..n |->
               NewMessage(Data(f[i][1], f[i][2], "hi", "m" \o ToString(i), 0),
                          f[i][3])] : f \in [1..n -> Sent]} : n \in 0..MaxLog}

\* the server starts on a stored collection, with no connection yet
InitStored ==
    /\ sockets = [c \in Conns |-> "new"]
    /\ socketUserId = [c \in Conns |-> Missing]
    /\ connectedUsers = <<>>
    /\ log \in StoredLogs
    /\ pending = <<>>
    /\ last = Event("start", ALL, Missing)
    /\ out = <<>>

\* the limit and skip parameters of the history queries
Limits == {0, 1, 2}
Skips == {0, 1}

\* the history queries on a stored collection, over HTTP and over a socket
NextQuery ==
    \/ Connect("c1")
    \/ \E q \in QueryPairs, lim \in Limits, sk \in Skips :
          HistoryQuery(q[1], q[2], lim, sk)
    \/ \E q \in QueryPairs, lim \in Limits :
          RequestChatHistory("c1", q[1], q[2], lim)

SpecQuery == InitStored /\ [][NextQuery]_vars

\* who marks whose messages as read
MarkPairs == {<<"A", "B">>, <<"B", "A">>, <<"A", "C">>}

\* conversation summaries and mark-read on a stored collection
NextConversations ==
    \/ \E u \in QueryUsers : ConversationsQuery(u)
    \/ \E q \in MarkPairs : MarkRead(q[1], q[2])

SpecConversations == InitStored /\ [][NextConversations]_vars

\* the life of a record: one connection that signs in, sends and closes, and
\* every query and mark-read on the log
NextLog ==
    \/ Connect("c1")
    \/ \E u \in Users : Signin("c1", u)
    \/ Disconnect("c1")
    \/ \E d \in ValidData : SendMessage("c1", d)
    \/ \E i \in 1..MaxMsgs : SaveSettles(i)
    \/ \E q \in QueryPairs : HistoryQuery(q[1], q[2], 0, 0)
    \/ \E u \in Users : ConversationsQuery(u)
    \/ \E q \in QueryPairs : MarkRead(q[1], q[2])

SpecLog == Init /\ [][NextLog]_vars

\* sends to receivers that are registered when the send arrives, and may
\* disconnect before its write settles
NextRace ==
    \/ \E c \in RouteConns : Connect(c)
    \/ \E c \in RouteConns, u \in Users : Signin(c, u)
    \/ \E c \in RouteConns : Disconnect(c)
    \/ \E c \in RouteConns, d \in ValidData : SendToPresent(c, d)
    \/ \E i \in 1..MaxMsgs : SaveSettles(i)

SpecRace == Init /\ [][NextRace]_vars

\* payloads of sends that fail: a duplicate messageId, empty content, no
\* content; and one that the store may accept or reject
FailData ==
    { Data("A", "B", "hi", "m1", 0), Data("B", "A", "yo", "m1", 0),
      Data("A", "B", "", "m1", 0), Data("A", "B", Missing, "m1", 0) }

\* failing sends and history queries beside presence
NextFailure ==
    \/ \E c \in RouteConns : Connect(c)
    \/ \E c \in RouteConns, u \in Users : Signin(c, u)
    \/ \E c \in RouteConns : Disconnect(c)
    \/ \E c \in RouteConns, d \in FailData : SendMessage(c, d)
    \/ \E c \in RouteConns, d \in FailData : SendMessageExits(c, d)
    \/ \E i \in 1..MaxMsgs : SaveSettles(i)
    \/ \E c \in RouteConns : RequestChatHistory(c, "A", "B", 0)
    \/ \E c \in RouteConns : RequestChatHistoryFails(c, "A", "B", 0)

SpecFailure == Init /\ [][NextFailure]_vars

\* sends to A and B beside every presence event of the two and the history
\* query
ReplayData == { Data("A", "B", "hi", "m1", 0), Data("B", "A", "yo", Missing, 0) }

NextReplay ==
    \/ \E c \in RouteConns : Connect(c)
    \/ \E c \in RouteConns, u \in Users : Signin(c, u)
    \/ \E c \in RouteConns : StatusChange(c, "away")
    \/ \E c \in RouteConns : Disconnect(c)
    \/ \E c \in RouteConns, d \in ReplayData : SendMessage(c, d)
    \/ \E i \in 1..MaxMsgs : SaveSettles(i)
    \/ \E q \in QueryPairs : HistoryQuery(q[1], q[2], 0, 0)

SpecReplay == Init /\ [][NextReplay]_vars

\* sends that carry a timestamp of the client's clock, or none
TimedData ==
    { Data("A", "B", "hi", "m1", ts) : ts \in Times \cup {0} } \cup
    { Data("B", "A", "yo", "m2", ts) : ts \in Times \cup {0} }

\* sends with client timestamps and the history query of the pair
NextTimed ==
    \/ Connect("c1")
    \/ \E d \in TimedData : SendMessage("c1", d)
    \/ \E i \in 1..MaxMsgs : SaveSettles(i)
    \/ \E q \in QueryPairs : HistoryQuery(q[1], q[2], 0, 0)

SpecTimed == Init /\ [][NextTimed]_vars

\* presence of two connections with status changes and requests of the list
NextUsersList ==
    \/ \E c \in RouteConns : Connect(c)
    \/ \E c \in RouteConns, u \in Users : Signin(c, u)
    \/ \E c \in RouteConns, s \in {"away", "online"} : StatusChange(c, s)
    \/ \E c \in RouteConns : Disconnect(c)
    \/ \E c \in RouteConns : GetUsersList(c)

SpecUsersList == Init /\ [][NextUsersList]_vars

\* ------------------------------------------------------------- properties
Emitted(ev) == {i \in DOMAIN out : out[i].ev = ev}

\* the same document, whatever its read flag
SameMessage(m, d) == [m EXCEPT !.read = FALSE] = [d EXCEPT !.read = FALSE]

Persisted(d) == \E i \in DOMAIN log : SameMessage(log[i], d)

SendDone == last.kind = "send_done"

\* C1: the registry holds at most one entry per userId, and right after a
\* signin the entry of that userId points at the connection that signed in.
C1_OneEntryPerUser ==
    /\ \A i, j \in DOMAIN connectedUsers :
          connectedUsers[i].userId = connectedUsers[j].userId => i = j
    /\ last.kind = "signin" =>
          /\ MapHas(connectedUsers, last.arg)
          /\ MapGet(connectedUsers, last.arg).socketId = last.conn

\* a userId signs in again from a second connection while the first is open
C1_Resignin ==
    /\ last.kind = "signin"
    /\ \E c \in Conns : /\ c # last.conn
                        /\ sockets[c] = "open"
                        /\ socketUserId[c] = last.arg
    /\ Len(connectedUsers) = 1

\* C2: a disconnect of connection c whose userId is registered under another
\* handle leaves the registry as it is.
C2_RemoveOnlyOwnEntry ==
    [][(/\ last'.kind = "disconnect"
        /\ last'.arg # Missing
        /\ MapHas(connectedUsers, last'.arg)
        /\ MapGet(connectedUsers, last'.arg).socketId # last'.conn)
       => connectedUsers' = connectedUsers]_vars

\* C3: a disconnect broadcasts user_offline only if it removed the entry of
\* its own connection; a superseded connection's disconnect broadcasts none.
C3_OfflineOnlyOnRemoval ==
    [][(last'.kind = "disconnect" /\ \E i \in DOMAIN out' : out'[i].ev = "user_offline")
       => /\ MapHas(connectedUsers, last'.arg)
          /\ MapGet(connectedUsers, last'.arg).socketId = last'.conn
          /\ ~MapHas(connectedUsers', last'.arg)]_vars

\* C4: whenever receive_message is emitted, it is emitted by a send whose
\* document is in the log, with that document's sender, receiver and content.
C4_PersistBeforeDeliver ==
    \A i \in DOMAIN out :
       out[i].ev = "receive_message" =>
          /\ SendDone
          /\ Persisted(last.arg.doc)
          /\ out[i].p.sender = last.arg.doc.sender
          /\ out[i].p.receiverId = last.arg.doc.receiverId
          /\ out[i].p.content = last.arg.doc.content

\* a message is delivered to a registered receiver
C4_Delivered == Emitted("receive_message") # {}

\* C5: when the save of a send fails, the handler emits message_error to the
\* sending connection and nothing else.
C5_FailedSaveOnlyError ==
    (SendDone /\ last.arg.res # "saved") =>
        out = << Emit("message_error", last.conn, MessageError(last.arg.data.messageId)) >>

\* the store rejects the write of a valid message whose receiver is registered
C5_WriteFailed ==
    /\ SendDone
    /\ last.arg.res = "WriteError"
    /\ MapHas(connectedUsers, last.arg.data.receiverId)

\* C6: no two log records share a messageId; a send whose messageId is already
\* in the log fails with message_error only and leaves the log as it was.
C6_UniqueMessageId ==
    [][/\ \A i, j \in DOMAIN log' : log'[i].messageId = log'[j].messageId => i = j
       /\ (/\ last'.kind = "send_done"
           /\ \E i \in DOMAIN log : log[i].messageId = last'.arg.doc.messageId)
          => /\ last'.arg.res # "saved"
             /\ log' = log
             /\ out' = << Emit("message_error", last'.conn, MessageError(last'.arg.data.messageId)) >>]_vars

\* a resend of the messageId of a message that was persisted and marked read,
\* to a receiver who is registered
C6_DuplicateRejected ==
    /\ SendDone
    /\ last.arg.res = "DuplicateKey"
    /\ MapHas(connectedUsers, last.arg.data.receiverId)
    /\ \E i \in DOMAIN log : /\ log[i].messageId = last.arg.doc.messageId
                              /\ log[i].read = TRUE

\* C7: a saved send whose receiver has no registry entry is in the log and is
\* answered with receiver_offline; the log keeps every record; and History of
\* a record's sender and receiver, with the default limit, contains the record.
C7_OfflineSendInHistory ==
    [][/\ (/\ last'.kind = "send_done"
           /\ last'.arg.res = "saved"
           /\ ~MapHas(connectedUsers', last'.arg.data.receiverId))
          => /\ \E i \in DOMAIN log' : log'[i] = last'.arg.doc
             /\ \E i \in DOMAIN out' :
                   /\ out'[i].ev = "receiver_offline"
                   /\ out'[i].to = last'.conn
       /\ \A i \in DOMAIN log :
             i \in DOMAIN log' /\ SameMessage(log'[i], log[i])
       /\ \A i \in DOMAIN log' :
             \A r \in History(log', log'[i].sender, log'[i].receiverId, 0, 0) :
                \E k \in DOMAIN r : r[k] = log'[i]
       /\ last'.kind = "history" =>
             \A i \in DOMAIN log' :
                (log'[i].sender = last'.arg[1] /\ log'[i].receiverId = last'.arg[2])
                => \E k \in DOMAIN out'[1].p.messages :
                      out'[1].p.messages[k] = log'[i]]_vars

\* a History query of sender and receiver returns two messages, one of them
\* sent while the receiver had no registry entry
C7_HistoryAfterOfflineSend ==
    /\ last.kind = "history"
    /\ Len(out[1].p.messages) = 2
    /\ \E k \in DOMAIN out[1].p.messages :
          /\ out[1].p.messages[k].sender = last.arg[1]
          /\ out[1].p.messages[k].receiverId = last.arg[2]
    /\ connectedUsers = <<>>
    /\ \A c \in Conns : socketUserId[c] = Missing

C9_DirectedDelivery ==
    (/\ SendDone
     /\ last.arg.res = "saved"
     /\ MapHas(connectedUsers, last.arg.data.receiverId))
    => /\ Cardinality(Emitted("receive_message")) = 1
       /\ \A i \in Emitted("receive_message") :
             /\ out[i].to = MapGet(connectedUsers, last.arg.data.receiverId).socketId
             /\ out[i].p.content = last.arg.data.content
             /\ out[i].p.sender = last.arg.data.sender
             /\ out[i].p.receiverId = last.arg.data.receiverId
       /\ \E i \in Emitted("message_sent") :
             /\ out[i].to = last.conn
             /\ out[i].p.messageId = last.arg.data.messageId

\* A signed in on one connection sends m1 to B, signed in on the other
C9_BothSignedIn ==
    /\ SendDone
    /\ last.arg.res = "saved"
    /\ last.arg.data.messageId = "m1"
    /\ socketUserId[last.conn] = last.arg.data.sender
    /\ sockets[last.conn] = "open"
    /\ MapHas(connectedUsers, last.arg.data.sender)
    /\ MapHas(connectedUsers, last.arg.data.receiverId)
    /\ MapGet(connectedUsers, last.arg.data.receiverId).socketId # last.conn
    /\ sockets[MapGet(connectedUsers, last.arg.data.receiverId).socketId] = "open"

\* a payload whose sender, receiverId or content is missing or empty
InvalidPayload(d) == Falsy(d.sender) \/ Falsy(d.receiverId) \/ Falsy(d.content)

\* C10: the handler of a send with a missing or empty sender, receiverId or
\* content goes on to report it: it ends with message_error to the sending
\* connection only, and its document is not saved.
C10_InvalidSendReported ==
    /\ (last.kind = "send_message" /\ InvalidPayload(last.arg)) =>
          \E i \in DOMAIN pending :
             pending[i].conn = last.conn /\ pending[i].data = last.arg
    /\ (SendDone /\ InvalidPayload(last.arg.data)) =>
          /\ last.arg.res = "ValidationError"
          /\ out = << Emit("message_error", last.conn, MessageError(last.arg.data.messageId)) >>

\* C11: the log keeps the order in which one connection issued its sends:
\* while c1 is the only connection that ever opened, a record of a sender never
\* precedes a record of the same sender that was issued at an earlier time.
C11_PerSenderOrder ==
    (\A c \in RouteConns \ {"c1"} : sockets[c] = "new") =>
        \A i, j \in DOMAIN log :
           (i < j /\ log[i].sender = log[j].sender)
           => log[i].createdAt <= log[j].createdAt

\* C12: a typing or stop_typing signal leaves the log, the writes in flight
\* and the registry as they were; when receiverId has a registry entry the
\* only emission is one user_typing to the connection of that entry, and
\* otherwise nothing is emitted.
C12_TypingForwardedOrDropped ==
    [][(last'.kind \in {"typing", "stop_typing"}) =>
         /\ log' = log
         /\ pending' = pending
         /\ connectedUsers' = connectedUsers
         /\ IF MapHas(connectedUsers, last'.arg)
            THEN /\ Len(out') = 1
                 /\ out'[1].ev = "user_typing"
                 /\ out'[1].to = MapGet(connectedUsers, last'.arg).socketId
                 /\ out'[1].p.isTyping = (last'.kind = "typing")
                 /\ out'[1].p.userId = socketUserId[last'.conn]
            ELSE out' = <<>>]_vars

\* a signal to a user registered on the other connection, with a message in
\* the log
C12_TypingForwarded ==
    /\ last.kind = "typing"
    /\ log # <<>>
    /\ MapHas(connectedUsers, last.arg)
    /\ MapGet(connectedUsers, last.arg).socketId # last.conn
    /\ Emitted("user_typing") # {}

\* C13: a status_change from a signed-in connection whose user has a registry
\* entry sets that entry's status to newStatus, leaves the entry's other
\* fields, every other entry and the order of the entries as they were, and
\* then broadcasts the users list of the updated registry to all connections.
C13_StatusChangeUpdatesOwnEntry ==
    [][(/\ last'.kind = "status_change"
        /\ socketUserId[last'.conn] # Missing
        /\ MapHas(connectedUsers, socketUserId[last'.conn]))
       => /\ Len(connectedUsers') = Len(connectedUsers)
          /\ \A i \in DOMAIN connectedUsers :
                IF connectedUsers[i].userId = socketUserId[last'.conn]
                THEN connectedUsers'[i] =
                        [connectedUsers[i] EXCEPT !.status = last'.arg]
                ELSE connectedUsers'[i] = connectedUsers[i]
          /\ out' = << BroadcastUsersList(connectedUsers') >>
          /\ out'[1].to = ALL]_vars

\* a signed-in user sets away while another user is registered as online
C13_AwayBesideOnline ==
    /\ last.kind = "status_change"
    /\ last.arg = "away"
    /\ Len(connectedUsers) = 2
    /\ \E i, j \in DOMAIN connectedUsers :
          /\ connectedUsers[i].userId = socketUserId[last.conn]
          /\ connectedUsers[i].status = "away"
          /\ connectedUsers[j].status = "online"

\* C14: every registry entry's status is online, away or busy; offline is
\* never stored in the registry.
C14_StatusInEnum ==
    \A i \in DOMAIN connectedUsers :
       connectedUsers[i].status \in {"online", "away", "busy"}

\* C15: when a connection closes that signed in and is still the registered
\* connection of its user, the user's entry is removed, the other entries
\* stay, and the users list without the user and then user_offline for the
\* user are broadcast to all connections; when a connection closes that never
\* signed in, the registry stays as it was and nothing is emitted.
C15_CloseRemovesThenBroadcasts ==
    [][(last'.kind = "disconnect") =>
         /\ (/\ socketUserId[last'.conn] # Missing
             /\ MapHas(connectedUsers, socketUserId[last'.conn])
             /\ MapGet(connectedUsers, socketUserId[last'.conn]).socketId
                   = last'.conn)
            => /\ ~MapHas(connectedUsers', socketUserId[last'.conn])
               /\ connectedUsers' =
                     SelectSeq(connectedUsers,
                         LAMBDA e : e.userId # socketUserId[last'.conn])
               /\ Len(out') = 2
               /\ out'[1].ev = "users_list_updated"
               /\ out'[1].to = ALL
               /\ \A k \in DOMAIN out'[1].p.onlineUsers :
                     out'[1].p.onlineUsers[k].userId # socketUserId[last'.conn]
               /\ Len(out'[1].p.onlineUsers) = Len(connectedUsers')
               /\ out'[2] = Emit("user_offline", ALL,
                                 [userId |-> socketUserId[last'.conn]])
         /\ socketUserId[last'.conn] = Missing
            => /\ connectedUsers' = connectedUsers
               /\ out' = <<>>]_vars

\* the connection of A closes while B is registered on another connection
C15_ClosedWhileOtherOnline ==
    /\ last.kind = "disconnect"
    /\ last.arg = "A"
    /\ \A c \in Conns \ {last.conn} : socketUserId[c] # "A"
    /\ Len(connectedUsers) = 1
    /\ connectedUsers[1].userId = "B"
    /\ Len(out) = 2
    /\ out[1] = BroadcastUsersList(connectedUsers)
    /\ out[2].ev = "user_offline"

\* the messages a history query returned, over HTTP or over a socket
HistoryReply == last.kind \in {"history", "request_chat_history"}

\* C16: a history query about users a and b returns messages of the log that
\* a sent to b or b sent to a, none of them twice and none with a third user
\* as sender or receiver, ordered oldest first: timestamps never decrease
\* along the returned sequence, for every limit and skip.
C16_HistoryPairOldestFirst ==
    HistoryReply =>
       LET r == out[1].p.messages
           a == last.arg[1]
           b == last.arg[2]
       IN /\ \A k \in DOMAIN r :
                /\ \E i \in DOMAIN log : log[i] = r[k]
                /\ \/ r[k].sender = a /\ r[k].receiverId = b
                   \/ r[k].sender = b /\ r[k].receiverId = a
          /\ \A j, k \in DOMAIN r : j < k => r[j].timestamp <= r[k].timestamp
          /\ \A j, k \in DOMAIN r : j # k => r[j] # r[k]

\* a page of two messages of different times, both ways between the two
\* users, from a log that also holds a message of one of them with a third user
C16_PageOfTwo ==
    /\ last.kind = "history"
    /\ last.arg[3] = 2
    /\ Len(out[1].p.messages) = 2
    /\ out[1].p.messages[1].sender # out[1].p.messages[2].sender
    /\ out[1].p.messages[1].timestamp < out[1].p.messages[2].timestamp
    /\ \E i \in DOMAIN log : log[i].sender = "C" /\ log[i].receiverId = last.arg[1]

\* the summaries a conversations query returned
ConversationsReply == last.kind = "conversations"

\* C17: Conversations(u) returns one summary for each user that sent a message
\* to u or was sent one by u, no two summaries for the same user and none for
\* anyone else, and each summary's lastMessage is a message of the log between
\* u and that user that no other message between them is later than.
C17_OneSummaryPerCounterpart ==
    ConversationsReply =>
       LET r == out[1].p.conversations
           u == last.arg
       IN /\ \A j, k \in DOMAIN r : r[j].id = r[k].id => j = k
          /\ \A i \in DOMAIN log :
                (log[i].sender = u \/ log[i].receiverId = u)
                => \E k \in DOMAIN r :
                      r[k].id = (IF log[i].sender = u THEN log[i].receiverId
                                 ELSE log[i].sender)
          /\ \A k \in DOMAIN r :
                /\ \E i \in DOMAIN log : log[i] = r[k].lastMessage
                /\ \/ /\ r[k].lastMessage.sender = u
                      /\ r[k].lastMessage.receiverId = r[k].id
                   \/ /\ r[k].lastMessage.sender = r[k].id
                      /\ r[k].lastMessage.receiverId = u
                /\ \A i \in DOMAIN log :
                      (\/ log[i].sender = u /\ log[i].receiverId = r[k].id
                       \/ log[i].sender = r[k].id /\ log[i].receiverId = u)
                      => log[i].timestamp <= r[k].lastMessage.timestamp

\* two summaries, one of them for a user with an earlier and a later message
C17_TwoCounterparts ==
    /\ ConversationsReply
    /\ Len(out[1].p.conversations) = 2
    /\ \E k \in DOMAIN out[1].p.conversations, i \in DOMAIN log :
          /\ log[i].sender = last.arg
          /\ log[i].receiverId = out[1].p.conversations[k].id
          /\ out[1].p.conversations[k].lastMessage.sender
                = out[1].p.conversations[k].id
          /\ log[i].timestamp < out[1].p.conversations[k].lastMessage.timestamp

C19_MarkReadFrame ==
    [][(last'.kind = "mark_read") =>
         /\ Len(log') = Len(log)
         /\ \A i \in DOMAIN log :
               IF log[i].receiverId = last'.arg[1] /\ log[i].sender = last'.arg[2]
               THEN log'[i] = [log[i] EXCEPT !.read = TRUE]
               ELSE log'[i] = log[i]]_vars

\* after MarkRead(A, B): a message from B to A is read, one from C to A and
\* one from A to B are still unread
C19_OthersUnread ==
    /\ last.kind = "mark_read"
    /\ last.arg = <<"A", "B">>
    /\ \E i, j, k \in DOMAIN log :
          /\ log[i].sender = "B" /\ log[i].receiverId = "A" /\ log[i].read
          /\ log[j].sender = "C" /\ log[j].receiverId = "A" /\ ~log[j].read
          /\ log[k].sender = "A" /\ log[k].receiverId = "B" /\ ~log[k].read

\* C20: MarkRead is idempotent and total: after MarkRead(a, b) a second
\* MarkRead(a, b) would leave the log as it is, a MarkRead that repeats the
\* one before it changes nothing, a MarkRead that no message matches leaves
\* the log unchanged, and every MarkRead answers with success.
C20_MarkReadIdempotent ==
    [][(last'.kind = "mark_read") =>
         /\ UpdateRead(log', last'.arg[1], last'.arg[2]) = log'
         /\ (last.kind = "mark_read" /\ last.arg = last'.arg) => log' = log
         /\ (\A i \in DOMAIN log :
                ~(log[i].receiverId = last'.arg[1] /\ log[i].sender = last'.arg[2]))
            => log' = log
         /\ out' = << Emit("mark_read_ok", HTTP, Missing) >>]_vars

\* MarkRead(A, B) on a log whose messages are all from B to A and all read
C20_AllRead ==
    /\ last.kind = "mark_read"
    /\ last.arg = <<"A", "B">>
    /\ Len(log) >= 2
    /\ \A i \in DOMAIN log :
          log[i].sender = "B" /\ log[i].receiverId = "A" /\ log[i].read

\* C21: right after MarkRead(x, y), every result of Conversations(x) has
\* unreadCount 0 in the summary of y, and in the summary of any other user the
\* unreadCount that Conversations(x) gave before the MarkRead.
C21_MarkReadClearsOnlyOne ==
    [][(last'.kind = "mark_read") =>
         \A after \in Conversations(log', last'.arg[1]) :
            \A k \in DOMAIN after :
               IF after[k].id = last'.arg[2]
               THEN after[k].unreadCount = 0
               ELSE \A before \in Conversations(log, last'.arg[1]) :
                       \E j \in DOMAIN before :
                          /\ before[j].id = after[k].id
                          /\ before[j].unreadCount = after[k].unreadCount]_vars

\* after MarkRead(A, B): both messages from B to A are read and Conversations(A)
\* still counts the one unread message from C
C21_OtherStillCounted ==
    /\ last.kind = "mark_read"
    /\ last.arg = <<"A", "B">>
    /\ Cardinality({i \in DOMAIN log :
          log[i].sender = "B" /\ log[i].receiverId = "A" /\ log[i].read}) = 2
    /\ \A r \in Conversations(log, "A") :
          /\ \E k \in DOMAIN r : r[k].id = "B" /\ r[k].unreadCount = 0
          /\ \E k \in DOMAIN r : r[k].id = "C" /\ r[k].unreadCount = 1

\* C22: a record enters the log with read = false, and a record that is read
\* stays read in every step: of a send, a mark-read, a history or
\* conversations query, a signin or a disconnect.
C22_ReadMonotone ==
    [][/\ \A j \in DOMAIN log' :
             (\A i \in DOMAIN log : log[i].messageId # log'[j].messageId)
             => log'[j].read = FALSE
       /\ \A i \in DOMAIN log, j \in DOMAIN log' :
             (log[i].messageId = log'[j].messageId /\ log[i].read)
             => log'[j].read]_vars

\* a send is saved into a log whose first record was marked read
C22_SavedBesideRead ==
    /\ SendDone
    /\ last.arg.res = "saved"
    /\ Len(log) = 2
    /\ log[1].read
    /\ ~log[2].read

\* C23: the log is append-only: a saved send appends its one document, no
\* other step changes the length of the log, and every record keeps its place
\* and all its fields other than read.
C23_AppendOnly ==
    [][/\ \A i \in DOMAIN log :
             i \in DOMAIN log' /\ SameMessage(log'[i], log[i])
       /\ IF last'.kind = "send_done" /\ last'.arg.res = "saved"
             /\ pending' # pending
          THEN log' = Append(log, last'.arg.doc)
          ELSE Len(log') = Len(log)]_vars

\* a send with the messageId of a record of other content is rejected and the
\* record is as it was
C23_NotOverwritten ==
    /\ SendDone
    /\ last.arg.res = "DuplicateKey"
    /\ \E i \in DOMAIN log :
          /\ log[i].messageId = last.arg.doc.messageId
          /\ log[i].content # last.arg.doc.content

\* C24: every send here started while its receiver was registered.  When its
\* write is saved and the receiver has no registry entry any more, the document
\* is in the log and the sender is answered with receiver_offline and
\* message_sent, not with message_error, and nothing is delivered.
C24_OfflineFallback ==
    (/\ SendDone
     /\ last.arg.res = "saved"
     /\ ~MapHas(connectedUsers, last.arg.data.receiverId))
    => /\ \E i \in DOMAIN log : log[i] = last.arg.doc
       /\ out = << Emit("receiver_offline", last.conn,
                        [receiverId |-> last.arg.data.receiverId]),
                   Emit("message_sent", last.conn,
                        [messageId |-> last.arg.data.messageId]) >>

\* the receiver's connection closed while the write was in flight; the sender
\* is still signed in on its open connection
C24_ReceiverLeftInFlight ==
    /\ SendDone
    /\ last.arg.res = "saved"
    /\ ~MapHas(connectedUsers, last.arg.data.receiverId)
    /\ sockets[last.conn] = "open"
    /\ socketUserId[last.conn] = last.arg.data.sender
    /\ \E c \in RouteConns : /\ sockets[c] = "closed"
                             /\ socketUserId[c] = last.arg.data.receiverId
    /\ Emitted("receiver_offline") # {}

\* C25: a step in which a send fails (its payload makes the handler throw, or
\* its save is rejected as invalid, as a duplicate or by the store) or in which
\* a history query fails leaves the registry, the log and every connection as
\* they were, and emits to the caller's connection only.
C25_FailureIsLocal ==
    [][(\/ last'.kind = "send_done" /\ last'.arg.res # "saved"
           /\ pending' # pending
        \/ last'.kind = "send_message" /\ last'.arg.content = Missing
        \/ last'.kind = "chat_history_failed")
       => /\ connectedUsers' = connectedUsers
          /\ log' = log
          /\ sockets' = sockets
          /\ \A k \in DOMAIN out' : out'[k].to = last'.conn]_vars

\* C26: a send_message that arrived on a connection which never signed in is
\* not saved and delivers nothing.
C26_ActiveOnly ==
    (SendDone /\ socketUserId[last.conn] = Missing) =>
        /\ last.arg.res # "saved"
        /\ Emitted("receive_message") = {}

\* C27: no two registry entries hold the same socket id.
C27_OneEntryPerSocket ==
    \A i, j \in DOMAIN connectedUsers :
       connectedUsers[i].socketId = connectedUsers[j].socketId => i = j

\* the error kind that the payload of message_error is to carry for a save
\* that settled as res
ErrorKind(res) ==
    IF res = "ValidationError" THEN "ValidationError"
    ELSE IF res = "DuplicateKey" THEN "DuplicateMessageId"
    ELSE "PersistenceFailure"

\* C28: the message_error of a failed send carries the kind of the failure:
\* ValidationError, DuplicateMessageId or PersistenceFailure.
C28_ErrorKindReported ==
    (SendDone /\ last.arg.res # "saved") =>
        \E i \in Emitted("message_error") :
           out[i].p.error = ErrorKind(last.arg.res)

\* C29: receive_message is emitted only by the step that ends the handling of
\* a saved send, once, with the sender, receiver and content of that send; no
\* signin, status_change, disconnect or query step emits one.  Every record
\* is returned by the history query of its sender and receiver.
C29_NoReplay ==
    /\ \A i \in Emitted("receive_message") :
          /\ SendDone
          /\ last.arg.res = "saved"
          /\ out[i].p.sender = last.arg.data.sender
          /\ out[i].p.receiverId = last.arg.data.receiverId
          /\ out[i].p.content = last.arg.data.content
    /\ Cardinality(Emitted("receive_message")) <= 1
    /\ \A i \in DOMAIN log :
          \A r \in History(log, log[i].sender, log[i].receiverId, 0, 0) :
             \E k \in DOMAIN r : r[k] = log[i]

\* a user who is registered nowhere else signs in while the log holds a
\* message addressed to that user and no write is in flight
C29_SigninAfterOfflineSend ==
    /\ last.kind = "signin"
    /\ \E i \in DOMAIN log : log[i].receiverId = last.arg
    /\ pending = <<>>
    /\ Len(connectedUsers) = 1
    /\ \A c \in Conns \ {last.conn} : socketUserId[c] # last.arg

\* C30: the payload of receive_message carries the messageId, sender,
\* receiverId, content and timestamp of the record saved for that send.
C30_DeliveredVerbatim ==
    \A i \in Emitted("receive_message") :
       /\ out[i].p.messageId = last.arg.doc.messageId
       /\ out[i].p.sender = last.arg.doc.sender
       /\ out[i].p.receiverId = last.arg.doc.receiverId
       /\ out[i].p.content = last.arg.doc.content
       /\ out[i].p.timestamp = last.arg.doc.timestamp

\* C31: a valid send without a messageId gets a generated messageId that no
\* record of the log has: its save never fails as a duplicate.
C31_GeneratedIdUnique ==
    (/\ SendDone
     /\ Falsy(last.arg.data.messageId)
     /\ ~InvalidPayload(last.arg.data))
    => last.arg.res # "DuplicateKey"

\* C32: the history query lists the messages in the order of their creation:
\* along the returned sequence the creation time never decreases, whatever
\* timestamps the payloads carried.
C32_HistoryByCreation ==
    last.kind = "history" =>
       \A j, k \in DOMAIN out[1].p.messages :
          j < k => out[1].p.messages[j].createdAt <= out[1].p.messages[k].createdAt

\* the page sizes and the number of pages that cover a stored log
PageSizes == {1, 2}
Pages == 0..MaxLog

\* C33: for users a and b with n messages in the log and a page size L, the
\* page at offset k * L has min(L, max(0, n - k * L)) messages, and the pages
\* at offsets 0, L, 2L, ... returned by successive queries on the unchanged
\* log have no message in common and together hold each of the n messages.
C33_Pagination ==
    \A q \in QueryPairs, L \in PageSizes :
       LET n == Cardinality({i \in DOMAIN log : Between(log[i], q[1], q[2])})
       IN \A j, k \in Pages :
             \A pj \in History(log, q[1], q[2], L, j * L),
                pk \in History(log, q[1], q[2], L, k * L) :
                /\ Len(pj) = (IF n > j * L THEN Min(L, n - j * L) ELSE 0)
                /\ j # k => \A x \in DOMAIN pj, y \in DOMAIN pk : pj[x] # pk[y]

\* C34: a signin registers the user on the connection, emits signin_success
\* to that connection only and then the users list to all connections; the
\* list names the user once and, once each, every user registered before.
C34_SigninRegistersThenBroadcasts ==
    [][(last'.kind = "signin") =>
         /\ MapHas(connectedUsers', last'.arg)
         /\ MapGet(connectedUsers', last'.arg).socketId = last'.conn
         /\ Len(out') = 2
         /\ out'[1] = Emit("signin_success", last'.conn, [userId |-> last'.arg])
         /\ out'[2].ev = "users_list_updated"
         /\ out'[2].to = ALL
         /\ Cardinality({k \in DOMAIN out'[2].p.onlineUsers :
               out'[2].p.onlineUsers[k].userId = last'.arg}) = 1
         /\ \A i \in DOMAIN connectedUsers :
               Cardinality({k \in DOMAIN out'[2].p.onlineUsers :
                  out'[2].p.onlineUsers[k].userId = connectedUsers[i].userId}) = 1
         /\ Len(out'[2].p.onlineUsers) = Len(connectedUsers')]_vars

\* B signs in on a second connection while A is registered on the first
C34_SecondUserSignsIn ==
    /\ last.kind = "signin"
    /\ last.arg = "B"
    /\ Len(connectedUsers) = 2
    /\ connectedUsers[1].userId = "A"
    /\ connectedUsers[1].socketId # last.conn
    /\ Len(out) = 2
    /\ Len(out[2].p.onlineUsers) = 2

\* C35: every users list that is sent, to the caller of get_users_list or to
\* all connections, has one element per registry entry, with the userId and
\* the status stored in that entry, and the list of get_users_list goes to
\* the caller only.
C35_ListIsSnapshot ==
    \A e \in DOMAIN out :
       out[e].ev \in {"users_list", "users_list_updated"} =>
          /\ Len(out[e].p.onlineUsers) = Len(connectedUsers)
          /\ \A k \in DOMAIN out[e].p.onlineUsers :
                /\ out[e].p.onlineUsers[k].userId = connectedUsers[k].userId
                /\ out[e].p.onlineUsers[k].status = connectedUsers[k].status
          /\ out[e].ev = "users_list" => out[e].to = last.conn

\* C36: no registry entry holds the socket id of a connection that has closed.
C36_NoStaleEntry ==
    \A i \in DOMAIN connectedUsers :
       sockets[connectedUsers[i].socketId] # "closed"

\* C37: the sender of a message that is saved, and of a message that is
\* delivered, is the userId under which the sending connection signed in.
C37_SenderIsSignedInUser ==
    (/\ SendDone
     /\ last.arg.res = "saved"
     /\ socketUserId[last.conn] # Missing)
    => /\ last.arg.doc.sender = socketUserId[last.conn]
       /\ \A i \in Emitted("receive_message") :
             out[i].p.sender = socketUserId[last.conn]

\* C38: every send_message gets exactly one terminal outcome at the sending
\* connection: after the event its handler is waiting for the write, whatever
\* the payload, and when the write settles the handler emits exactly one of
\* message_sent, receiver_offline and message_error to that connection.
C38_OneTerminalOutcome ==
    /\ last.kind = "send_message" =>
          \E i \in DOMAIN pending :
             pending[i].conn = last.conn /\ pending[i].data = last.arg
    /\ SendDone =>
          Cardinality({i \in DOMAIN out :
                         /\ out[i].to = last.conn
                         /\ out[i].ev \in {"message_sent", "receiver_offline",
                                           "message_error"}}) = 1

\* C39: when the write of a send settles and another send with the same
\* messageId is in flight or stored, at most one record with that messageId is
\* stored and at most one receive_message is emitted; if a record with that
\* messageId is stored already, the log stays as it is and the handler emits
\* message_error to its connection and nothing else; if none is and the write
\* is saved, its record is the one stored and the other sends stay in flight.
C39_RaceOnMessageId ==
    [][last'.kind = "send_done" =>
         LET id == last'.arg.doc.messageId
             StoredBefore == {k \in DOMAIN log : log[k].messageId = id}
             StoredAfter == {k \in DOMAIN log' : log'[k].messageId = id}
             InFlight == {i \in DOMAIN pending : pending[i].doc.messageId = id}
             Delivered == {i \in DOMAIN out' : out'[i].ev = "receive_message"}
         IN  Cardinality(InFlight) + Cardinality(StoredBefore) >= 2 =>
               /\ Cardinality(StoredAfter) <= 1
               /\ Cardinality(Delivered) <= 1
               /\ StoredBefore # {} =>
                     /\ log' = log
                     /\ out' = << Emit("message_error", last'.conn,
                                       MessageError(last'.arg.data.messageId)) >>
               /\ (StoredBefore = {} /\ last'.arg.res = "saved") =>
                     /\ \A k \in StoredAfter : log'[k] = last'.arg.doc
                     /\ Cardinality({i \in DOMAIN pending' :
                                       pending'[i].doc.messageId = id})
                           = Cardinality(InFlight) - 1]_vars

\* of two sends with one messageId and different senders the one that arrived
\* later was stored, and the one that arrived first, still in flight then, is
\* rejected as a duplicate when its write settles
C39_FirstSentLoses ==
    /\ SendDone
    /\ last.arg.res = "DuplicateKey"
    /\ Emitted("message_error") # {}
    /\ \E k \in DOMAIN log :
          /\ log[k].messageId = last.arg.doc.messageId
          /\ log[k].createdAt > last.arg.doc.createdAt
          /\ log[k].sender # last.arg.doc.sender
====
